---- MODULE Spec2Model ----
(***************************************************************************)
(* Model of src/main.py (tgaru/freelancer-analytics): load_data reads and  *)
(* cleans a CSV file and aggregates a bundle of statistics; generate_answer*)
(* formats the bundle into a context, submits context + question to the    *)
(* chat-completion service and returns the reply or an error string; main  *)
(* runs load_data once and then the console loop.                          *)
(*                                                                         *)
(* Numbers: a mean is the exact fraction sum/count, kept reduced, and      *)
(* 0/0 is NaN (pandas' mean of an empty selection).  A Pearson coefficient *)
(* is kept as its sign and its square (a fraction), again with NaN.        *)
(* A dict is the sequence of its (key, value) items in iteration order.    *)
(***************************************************************************)
EXTENDS Integers, Sequences, FiniteSets, TLC

\* ------------------------------------------------------------------ bounds
\* Largest number of data rows of a file given to load_data alone.
MaxRows == 3
\* Largest number of data rows of the file main() is run on.
MaxRowsMain == 2
\* Largest number of lines the console loop reads in one session.
MaxTurns == 3
\* Largest number of categories of a category_stats given to the ranking alone.
MaxCats == 6

\* ------------------------------------------------------------- the columns
numeric_cols ==
    {"Earnings_USD", "Hourly_Rate", "Job_Success_Rate", "Client_Rating",
     "Job_Duration_Days", "Rehire_Rate", "Marketing_Spend"}

\* The columns load_data indexes by name; a file lacking one raises KeyError.
RequiredColumns ==
    numeric_cols \cup
    {"Payment_Method", "Client_Region", "Experience_Level", "Job_Category",
     "Platform", "Job_Completed"}

\* The dataset carries columns the program never names; dropna() sees them too.
AllColumns == RequiredColumns \cup {"Project_Type"}

\* ----------------------------------------------------- text cells of a file
\* pandas.read_csv reads these texts as a missing value (its default
\* na_values; "None" is one of them from pandas 2.0 on).
NAValues ==
    {"", "#N/A", "#N/A N/A", "#NA", "-1.#IND", "-1.#QNAN", "-NaN", "-nan",
     "1.#IND", "1.#QNAN", "<NA>", "N/A", "NA", "NULL", "NaN", "None", "n/a",
     "nan", "null"}

\* The numerals of the modelled files and the number each one denotes.
NumberOf ==
    [t \in {"0", "3", "4", "5", "10", "20", "30", "40", "50", "60", "70",
            "80", "90", "100", "120", "300", "500"} |->
        CASE t = "0" -> 0 [] t = "3" -> 3 [] t = "4" -> 4 [] t = "5" -> 5
          [] t = "10" -> 10 [] t = "20" -> 20 [] t = "30" -> 30
          [] t = "40" -> 40 [] t = "50" -> 50 [] t = "60" -> 60
          [] t = "70" -> 70 [] t = "80" -> 80 [] t = "90" -> 90
          [] t = "100" -> 100 [] t = "120" -> 120 [] t = "300" -> 300
          [] t = "500" -> 500]

IsMissing(cell) == cell \in NAValues

IsNumeral(cell) == cell \in DOMAIN NumberOf

\* ----------------------------------------------------------------- the files
Row(e, pm, reg, exp, cat, plat, jsr, rating, dur, rehire, mkt, jc, hr) ==
    [c \in AllColumns |->
        CASE c = "Earnings_USD" -> e
          [] c = "Payment_Method" -> pm
          [] c = "Client_Region" -> reg
          [] c = "Experience_Level" -> exp
          [] c = "Job_Category" -> cat
          [] c = "Platform" -> plat
          [] c = "Job_Success_Rate" -> jsr
          [] c = "Client_Rating" -> rating
          [] c = "Job_Duration_Days" -> dur
          [] c = "Rehire_Rate" -> rehire
          [] c = "Marketing_Spend" -> mkt
          [] c = "Job_Completed" -> jc
          [] c = "Hourly_Rate" -> hr
          [] c = "Project_Type" -> "Fixed"]

\* Complete rows, as lines of freelancer_data.csv.  Job_Completed is not among
\* numeric_cols: the last row's count is a word, and the row is complete.
ValidRows ==
    { Row("100", "Crypto", "Asia", "Beginner", "App Development", "Fiverr",
          "80", "3", "10", "20", "50", "10", "20"),
      Row("300", "Bank Transfer", "Europe", "Expert", "Web Development", "Upwork",
          "90", "5", "10", "40", "0", "120", "50"),
      Row("500", "Crypto", "Asia", "Expert", "Web Development", "Upwork",
          "70", "4", "30", "60", "100", "80", "40"),
      Row("300", "Bank Transfer", "Europe", "Expert", "Data Entry", "Fiverr",
          "60", "3", "20", "50", "30", "many", "30") }

\* A cell a file may hold in place of a complete row's: empty, a text read as
\* missing, or a word.
DamageCells == {"", "N/A", "unknown"}

SeqsUpTo(S, n) == UNION { [1..k -> S] : k \in 1..n }

\* The tables of 1..n rows: complete rows, at most one cell of one row, in one
\* of the columns cols, replaced.
Tables(n, cols) ==
    LET clean == SeqsUpTo(ValidRows, n)
    IN  clean \cup
        { [rows EXCEPT ![i] = [@ EXCEPT ![c] = d]] :
            <<rows, i, c, d>> \in
              { t \in clean \X (1..n) \X cols \X DamageCells :
                  t[2] <= Len(t[1]) } }

\* A file is absent, or a header and data rows.
NoFile == [exists |-> FALSE, header |-> {}, rows |-> <<>>]

Table(header, rows) ==
    [exists |-> TRUE, header |-> header,
     rows |-> [i \in 1..Len(rows) |-> [c \in header |-> rows[i][c]]]]

\* Files whose header lacks a column the program names.
ShortFiles ==
    { Table(AllColumns \ {c}, <<r>>) :
        c \in {"Job_Completed", "Hourly_Rate", "Job_Category"}, r \in ValidRows }

\* Job categories, in the order the rows of a file name them.
CategoryNames ==
    <<"SEO", "Web Development", "Data Entry", "App Development", "Graphic Design",
      "Content Writing", "Digital Marketing", "Customer Support">>

\* A complete row of the given category and earnings.
CategoryRow(cat, e) ==
    Row(e, "Crypto", "Asia", "Expert", cat, "Upwork", "90", "5", "10", "40", "0", "120", "50")

\* The files of 1..n rows, one row per category, each earning 100 or 300.
CategoryFiles(n) ==
    { Table(AllColumns, [j \in 1..Len(es) |-> CategoryRow(CategoryNames[j], es[j])]) :
        es \in SeqsUpTo({"100", "300"}, n) }

Files(n, cols) ==
    {NoFile} \cup ShortFiles \cup { Table(AllColumns, rows) : rows \in Tables(n, cols) }

\* ------------------------------------------------------------------ numbers
RECURSIVE GCD(_, _)
GCD(a, b) == IF b = 0 THEN a ELSE GCD(b, a % b)

Abs(n) == IF n < 0 THEN -n ELSE n

\* Not-a-number: what 0/0 is.
NaN == [num |-> 0, den |-> 0]

\* The fraction n/d (d >= 0), reduced; n/0 is NaN.
Frac(n, d) ==
    IF d = 0 THEN NaN
    ELSE LET g == GCD(Abs(n), d) IN [num |-> n \div g, den |-> d \div g]

IsNaN(q) == q.den = 0

\* a < b for two fractions, neither NaN.
FracLess(a, b) == a.num * b.den < b.num * a.den

\* ------------------------------------------------------- pandas.read_csv
\* A cell of a data frame: a value, or missing (NaN).
Cell(v) == [na |-> FALSE, val |-> v]

\* read_csv infers a column's type from all its cells: numbers when every cell
\* that is not missing is a numeral, and text (object) otherwise.
ColumnIsNumeric(rows, c) ==
    \A i \in 1..Len(rows) : IsMissing(rows[i][c]) \/ IsNumeral(rows[i][c])

ReadCell(rows, c, i) ==
    LET text == rows[i][c]
    IN  IF ColumnIsNumeric(rows, c)
        THEN IF IsMissing(text) THEN [na |-> TRUE, val |-> 0] ELSE Cell(NumberOf[text])
        ELSE IF IsMissing(text) THEN [na |-> TRUE, val |-> ""] ELSE Cell(text)

\* pd.read_csv(filepath): the frame, one record per data row, labelled 0, 1, ...
\* (the label stays with the row when other rows are dropped).
ReadCsv(file) ==
    [i \in 1..Len(file.rows) |->
        [index |-> i - 1,
         cells |-> [c \in file.header |-> ReadCell(file.rows, c, i)]]]

\* The types of the frame's columns, which cleaning never changes for a column
\* it does not coerce.
IsNumericColumn(file, c) == ColumnIsNumeric(file.rows, c)

\* ------------------------------------------------------ cleaning (18-23)
\* df.dropna(): the rows with no missing cell in any column.
DropNa(frame) ==
    SelectSeq(frame, LAMBDA r : \A c \in DOMAIN r.cells : ~r.cells[c].na)

\* pd.to_numeric(errors='coerce') on one cell: a number stays, a numeral's text
\* becomes its number, any other text becomes missing.
ToNumeric(file, c, cell) ==
    IF cell.na \/ IsNumericColumn(file, c) THEN cell
    ELSE IF IsNumeral(cell.val) THEN Cell(NumberOf[cell.val])
    ELSE [na |-> TRUE, val |-> 0]

\* df[numeric_cols] = df[numeric_cols].apply(pd.to_numeric, errors='coerce')
Coerce(file, frame) ==
    [i \in 1..Len(frame) |->
        [frame[i] EXCEPT !.cells =
            [c \in DOMAIN frame[i].cells |->
                IF c \in numeric_cols THEN ToNumeric(file, c, frame[i].cells[c])
                ELSE frame[i].cells[c]]]]

\* df.dropna(subset=numeric_cols)
DropNaSubset(frame) ==
    SelectSeq(frame, LAMBDA r : \A c \in numeric_cols : ~r.cells[c].na)

\* Lines 15-23: the cleaned frame of a file that has every named column.
Clean(file) == DropNaSubset(Coerce(file, DropNa(ReadCsv(file))))

\* --------------------------------------------------- aggregation (26-38)
RECURSIVE SumCol(_, _)
SumCol(frame, c) ==
    IF Len(frame) = 0 THEN 0 ELSE frame[1].cells[c].val + SumCol(Tail(frame), c)

\* Series.mean(): the arithmetic mean, NaN for no rows.
Mean(frame, c) == Frac(SumCol(frame, c), Len(frame))

\* df[df[by] == k] and df[df[by] != k]
Where(frame, by, k) == SelectSeq(frame, LAMBDA r : r.cells[by].val = k)

WhereNot(frame, by, k) == SelectSeq(frame, LAMBDA r : r.cells[by].val # k)

\* The words of the modelled files in Python's string order, which is the order
\* groupby (sort=True) gives its keys.
WordOrder ==
    <<"App Development", "Asia", "Bank Transfer", "Beginner", "Content Writing",
      "Crypto", "Customer Support", "Data Entry", "Digital Marketing", "Europe",
      "Expert", "Fiverr", "Fixed", "Graphic Design", "SEO", "Upwork",
      "Web Development", "many", "unknown">>

\* The group keys of a column: the values that occur, each once, sorted.
GroupKeys(frame, by) ==
    SelectSeq(WordOrder, LAMBDA w : \E i \in 1..Len(frame) : frame[i].cells[by].val = w)

\* A grouped mean that averages the whole frame under every key.
GroupMean_WholeFrame(frame, by, c) ==
    LET keys == GroupKeys(frame, by)
    IN  [j \in 1..Len(keys) |-> <<keys[j], Mean(frame, c)>>]

\* df.groupby(by)[c].mean().to_dict(): the items (key, mean) in key order.
GroupMean(frame, by, c) ==
    LET keys == GroupKeys(frame, by)
    IN  [j \in 1..Len(keys) |-> <<keys[j], Mean(Where(frame, by, keys[j]), c)>>]

RECURSIVE MinCol(_, _)
MinCol(frame, c) ==
    IF Len(frame) = 1 THEN frame[1].cells[c].val
    ELSE LET m == MinCol(Tail(frame), c)
         IN  IF frame[1].cells[c].val < m THEN frame[1].cells[c].val ELSE m

RECURSIVE MaxCol(_, _)
MaxCol(frame, c) ==
    IF Len(frame) = 1 THEN frame[1].cells[c].val
    ELSE LET m == MaxCol(Tail(frame), c)
         IN  IF frame[1].cells[c].val > m THEN frame[1].cells[c].val ELSE m

\* The keys of Series.describe() for a column of numbers and for a column of text.
NumericDescribeKeys == {"count", "mean", "std", "min", "25%", "50%", "75%", "max"}

ObjectDescribeKeys == {"count", "unique", "top", "freq"}

\* Series.describe().to_dict() of column c.  The entries no code reads (std, the
\* quartiles, top, freq) are present as keys and carry no value here.
Describe(file, frame, c) ==
    IF IsNumericColumn(file, c)
    THEN [keys |-> NumericDescribeKeys,
          count |-> Len(frame),
          mean |-> Mean(frame, c),
          min |-> IF Len(frame) = 0 THEN NaN ELSE Frac(MinCol(frame, c), 1),
          max |-> IF Len(frame) = 0 THEN NaN ELSE Frac(MaxCol(frame, c), 1)]
    ELSE [keys |-> ObjectDescribeKeys,
          count |-> Len(frame),
          unique |-> Cardinality({ frame[i].cells[c].val : i \in 1..Len(frame) })]

Sign(n) == IF n < 0 THEN -1 ELSE IF n > 0 THEN 1 ELSE 0

RECURSIVE SumProd(_, _, _)
SumProd(frame, x, y) ==
    IF Len(frame) = 0 THEN 0
    ELSE frame[1].cells[x].val * frame[1].cells[y].val + SumProd(Tail(frame), x, y)

\* Pearson's r = cov / sqrt(var_x * var_y) of two columns, as its sign and its
\* square; NaN when the divisor is zero.
Pearson(frame, x, y) ==
    LET n   == Len(frame)
        sxy == n * SumProd(frame, x, y) - SumCol(frame, x) * SumCol(frame, y)
        sxx == n * SumProd(frame, x, x) - SumCol(frame, x) * SumCol(frame, x)
        syy == n * SumProd(frame, y, y) - SumCol(frame, y) * SumCol(frame, y)
    IN  IF sxx * syy = 0 THEN [sign |-> 0, sq |-> NaN]
        ELSE [sign |-> Sign(sxy), sq |-> Frac(sxy * sxy, sxx * syy)]

\* How the float64 that pandas' corr returns lies to the exact r: below it
\* (-1), the double nearest to it (0), or above it (1).  corr accumulates the
\* means and the sums of squares in one pass over the rows and divides the
\* covariance by the square root of their product, each step rounded; the
\* residue left depends on the rows and their order and on the pandas build
\* (from 3.0 on the result is clipped to [-1, 1]).  Below an exact 0 the
\* float is negative, if only in its sign.
Residues == {-1, 0, 1}

\* df[[x, y]].corr().iloc[0, 1]: the floats corr can return for Pearson's r,
\* each the exact r and a residue; NaN (the divisor is exactly zero when a
\* column is constant) has none.
Corr(frame, x, y) ==
    LET r == Pearson(frame, x, y)
    IN  { [sign |-> r.sign, sq |-> r.sq, off |-> off] :
            off \in IF IsNaN(r.sq) THEN {0} ELSE Residues }

\* Lines 26-38: the statistics of the cleaned frame, one bundle for each pair
\* of floats the two correlations can be.
Aggregate(file, frame) ==
    LET avg_earnings        == Mean(frame, "Earnings_USD")
        crypto_earnings     == Mean(Where(frame, "Payment_Method", "Crypto"), "Earnings_USD")
        non_crypto_earnings == Mean(WhereNot(frame, "Payment_Method", "Crypto"), "Earnings_USD")
        regional_earnings   == GroupMean(frame, "Client_Region", "Earnings_USD")
        experience_stats    == GroupMean(frame, "Experience_Level", "Earnings_USD")
        category_stats      == GroupMean(frame, "Job_Category", "Earnings_USD")
        platform_stats      == GroupMean(frame, "Platform", "Job_Success_Rate")
        expert_projects     == Describe(file, Where(frame, "Experience_Level", "Expert"),
                                        "Job_Completed")
        rehire_by_exp       == GroupMean(frame, "Experience_Level", "Rehire_Rate")
    IN  { [avg_earnings        |-> avg_earnings,
           crypto_earnings     |-> crypto_earnings,
           non_crypto_earnings |-> non_crypto_earnings,
           regional_earnings   |-> regional_earnings,
           experience_stats    |-> experience_stats,
           category_stats      |-> category_stats,
           platform_stats      |-> platform_stats,
           expert_projects     |-> expert_projects,
           rehire_by_exp       |-> rehire_by_exp,
           rating_vs_earnings  |-> rating_vs_earnings,
           duration_vs_rating  |-> duration_vs_rating] :
          rating_vs_earnings \in Corr(frame, "Client_Rating", "Earnings_USD"),
          duration_vs_rating \in Corr(frame, "Job_Duration_Days", "Client_Rating") }

\* None, for either component of load_data's result.
None == [none |-> TRUE]

\* A DataFrame object holding the rows of a frame.
DataFrame(frame) == [rows |-> frame]

\* Whether lines 15-38 raise: the file cannot be read, or lacks a named column.
LoadRaises(file) == ~file.exists \/ ~(RequiredColumns \subseteq file.header)

\* What can be raised in lines 15-38 that is no Exception: the user interrupts
\* the load, or the process is told to exit.
LoadErrors == {"KeyboardInterrupt", "SystemExit"}

\* load_data returning (df_, stats_) after printing text.
Return(df_, stats_, text) ==
    [df |-> df_, stats |-> stats_, printed |-> text, raised |-> ""]

\* load_data left by an exception that line 42 does not catch: nothing is
\* returned and nothing printed.
Raise(e) == [df |-> None, stats |-> None, printed |-> "", raised |-> e]

\* A load_data whose except branch returns an empty frame in place of None.
load_data_EmptyFrameOnError(f) ==
    { Raise(e) : e \in LoadErrors } \cup
    ( IF LoadRaises(f)
      THEN { Return(DataFrame(<<>>), None, "Error loading data") }
      ELSE LET frame == Clean(f)
           IN  { Return(DataFrame(frame), bundle, "") : bundle \in Aggregate(f, frame) } )

\* load_data(filepath): what it can do.  It returns (df, stats), or
\* (None, None) after the message when an Exception was raised; the file
\* decides which, and all of the result but the residues of the correlations.
\* Or what is raised is no Exception, passes line 42 and leaves load_data.
load_data(file) ==
    { Raise(e) : e \in LoadErrors } \cup
    ( IF LoadRaises(file)
      THEN { Return(None, None, "Error loading data") }
      ELSE LET frame == Clean(file)
           IN  { Return(DataFrame(frame), bundle, "") : bundle \in Aggregate(file, frame) } )

\* ------------------------------------------- formatting (generate_answer)
\* The values formatted are float64: a mean is the double nearest to sum/count.
\* A positive double is its exponent and its 53 bits, the leading one first:
\* the value is the sum of bits[i] * 2^(exp + 1 - i).

\* n/d scaled by a power of two into [1, 2), with the power.
RECURSIVE Normalise(_, _, _)
Normalise(n, d, e) ==
    IF n >= 2 * d THEN Normalise(n, 2 * d, e + 1)
    ELSE IF n < d THEN Normalise(2 * n, d, e - 1)
    ELSE [n |-> n, d |-> d, e |-> e]

\* The next k bits of the binary expansion of r/d (r < d), and what remains:
\* long division, the first half of the bits and then the rest.
RECURSIVE DivBits(_, _, _)
DivBits(r, d, k) ==
    IF k = 0 THEN [bits |-> <<>>, rem |-> r]
    ELSE IF k = 1
    THEN IF 2 * r >= d THEN [bits |-> <<1>>, rem |-> 2 * r - d]
                       ELSE [bits |-> <<0>>, rem |-> 2 * r]
    ELSE LET head == DivBits(r, d, k \div 2)
             rest == DivBits(head.rem, d, k - k \div 2)
         IN  [bits |-> head.bits \o rest.bits, rem |-> rest.rem]

\* The first 53 bits of n/d (n, d > 0), and the remainder rem/den left over.
Expansion(n, d) ==
    LET z == Normalise(n, d, 0)
        t == DivBits(z.n - z.d, z.d, 52)
    IN  [exp |-> z.e, bits |-> <<1>> \o t.bits, rem |-> t.rem, den |-> z.d]

\* A bit string plus one, and the carry out of it: the last zero becomes a
\* one and the ones after it zeros.
Increment(word) ==
    LET zeros == {i \in 1..Len(word) : word[i] = 0}
    IN  IF zeros = {} THEN [bits |-> [i \in 1..Len(word) |-> 0], carry |-> 1]
        ELSE LET last == CHOOSE i \in zeros : \A j \in zeros : j <= i
             IN  [bits  |-> [i \in 1..Len(word) |->
                               IF i < last THEN word[i] ELSE IF i = last THEN 1 ELSE 0],
                  carry |-> 0]

\* IEEE round-to-nearest-even of 53 kept bits; cmp is the sign of (what was
\* cut off minus half a unit of the last kept bit).
RoundToDouble(exp, bits, cmp) ==
    IF cmp > 0 \/ (cmp = 0 /\ bits[53] = 1)
    THEN LET up == Increment(bits)
         IN  IF up.carry = 1
             THEN [exp |-> exp + 1, bits |-> <<1>> \o SubSeq(up.bits, 1, 52)]
             ELSE [exp |-> exp, bits |-> up.bits]
    ELSE [exp |-> exp, bits |-> bits]

\* The double nearest to n/d (n, d > 0): float division.
FloatOfFrac(n, d) ==
    LET t == Expansion(n, d)
    IN  RoundToDouble(t.exp, t.bits, Sign(2 * t.rem - t.den))

\* The sum of two bit strings of one length (no carry out of the first bit):
\* a carry enters position i when some later position generates one and every
\* position between passes it on.
AddBits(a, b) ==
    LET carry(i) == IF \E j \in (i + 1)..Len(a) :
                          /\ a[j] + b[j] = 2
                          /\ \A m \in (i + 1)..(j - 1) : a[m] + b[m] = 1
                    THEN 1 ELSE 0
    IN  [i \in 1..Len(a) |-> (a[i] + b[i] + carry(i)) % 2]

\* A bit string from its first one on.
StripZeros(word) ==
    LET first == CHOOSE i \in 1..Len(word) :
                     word[i] = 1 /\ \A j \in 1..(i - 1) : word[j] = 0
    IN  SubSeq(word, first, Len(word))

\* How the bits cut off compare with half a unit of the last kept bit.
CutVersusHalf(cut) ==
    IF cut[1] = 0 THEN -1
    ELSE IF \E i \in 2..Len(cut) : cut[i] = 1 THEN 1 ELSE 0

\* val *= 100 on a double: the exact product 64x + 32x + 4x, rounded.
Times100(x) ==
    LET a == <<0>> \o x.bits \o <<0, 0, 0, 0, 0, 0>>
        b == <<0, 0>> \o x.bits \o <<0, 0, 0, 0, 0>>
        c == <<0, 0, 0, 0, 0>> \o x.bits \o <<0, 0>>
        p == StripZeros(AddBits(AddBits(a, b), c))
    IN  RoundToDouble(x.exp + Len(p) - 53, SubSeq(p, 1, 53),
                      CutVersusHalf(SubSeq(p, 54, Len(p))))

\* The sign of a - b for two bit strings of one length.
CompareBits(a, b) ==
    LET differ == {i \in 1..Len(a) : a[i] # b[i]}
    IN  IF differ = {} THEN 0
        ELSE LET first == CHOOSE i \in differ : \A j \in differ : i <= j
             IN  a[first] - b[first]

\* The sign of x - n/d for a double x and n, d > 0.
CompareToFrac(x, n, d) ==
    LET t == Expansion(n, d)
    IN  IF x.exp # t.exp THEN Sign(x.exp - t.exp)
        ELSE LET c == CompareBits(x.bits, t.bits)
             IN  IF c # 0 THEN c ELSE IF t.rem > 0 THEN -1 ELSE 0

\* n/d (n >= 0, d > 0) rounded to the nearest integer, a tie going to the even one.
RoundHalfEven(n, d) ==
    LET f == n \div d
        r == n % d
    IN  IF 2 * r < d THEN f
        ELSE IF 2 * r > d THEN f + 1
        ELSE IF f % 2 = 0 THEN f ELSE f + 1

\* The integer nearest to a double x that stands for the fraction n/d up to
\* float rounding: the integer nearest to n/d, except that when n/d lies
\* exactly between two integers the side x fell on decides (side is the sign
\* of x - n/d), and only x = n/d is a real tie, going to the even integer.
RoundFloat(n, d, side) ==
    IF 2 * (n % d) # d \/ side = 0 THEN RoundHalfEven(n, d)
    ELSE IF side > 0 THEN n \div d + 1 ELSE n \div d

\* Whether n/d lies exactly between two integers.
IsTie(n, d) == 2 * (n % d) = d

RECURSIVE Pow10(_)
Pow10(k) == IF k = 0 THEN 1 ELSE 10 * Pow10(k - 1)

\* A number as printed with a fixed number of decimals: "nan", or the sign and
\* the digits as an integer count of the last decimal place.
Printed(isnan, neg, units, places, suffix) ==
    [nan |-> isnan, neg |-> neg, units |-> units, places |-> places, suffix |-> suffix]

\* f"{q:.<places>f}" of the double nearest to the fraction q.
FormatF(q, places) ==
    IF IsNaN(q) THEN Printed(TRUE, FALSE, 0, places, "")
    ELSE LET n    == Abs(q.num) * Pow10(places)
             side == IF IsTie(n, q.den)
                     THEN CompareToFrac(FloatOfFrac(Abs(q.num), q.den), Abs(q.num), q.den)
                     ELSE 0
         IN  Printed(FALSE, q.num < 0, RoundFloat(n, q.den, side), places, "")

\* f"{q:.1%}": the double times 100 (a float product), one decimal, a percent sign.
FormatPercent(q) ==
    IF IsNaN(q) THEN Printed(TRUE, FALSE, 0, 1, "%")
    ELSE LET n    == Abs(q.num) * 1000
             side == IF IsTie(n, q.den)
                     THEN CompareToFrac(Times100(FloatOfFrac(Abs(q.num), q.den)),
                                        100 * Abs(q.num), q.den)
                     ELSE 0
         IN  Printed(FALSE, q.num < 0, RoundFloat(n, q.den, side), 1, "%")

\* f"{x}" of a float holding a whole number (a minimum or maximum of counts):
\* its digits, a point and one zero; "nan" for NaN.
FormatRepr(q) == FormatF(q, 1)

\* f"{r:.2f}" of a correlation float (the exact r = sign * sqrt(sq) and the
\* float's residue).  An exact 0 prints as 0.00, with a minus sign when the
\* float is negative.  Otherwise the hundredths h nearest to 100*|r| are found
\* from (2h - 1)^2 <= 40000 * sq < (2h + 1)^2; when |r| is exactly
\* (2h - 1)/200 the float decides between h - 1 and h: by its residue, or as
\* the double nearest to r when it is that one.
FormatCorr(r) ==
    IF IsNaN(r.sq) THEN Printed(TRUE, FALSE, 0, 2, "")
    ELSE IF r.sq.num = 0 THEN Printed(FALSE, r.off < 0, 0, 2, "")
    ELSE LET n == 40000 * r.sq.num
             d == r.sq.den
             h == CHOOSE k \in 0..100 :
                     /\ (k = 0 \/ (2 * k - 1) * (2 * k - 1) * d <= n)
                     /\ n < (2 * k + 1) * (2 * k + 1) * d
             tie == h > 0 /\ (2 * h - 1) * (2 * h - 1) * d = n
             away == r.off * r.sign
             side == IF tie /\ away = 0
                     THEN CompareToFrac(FloatOfFrac(2 * h - 1, 200), 2 * h - 1, 200)
                     ELSE away
         IN  Printed(FALSE, r.sign < 0,
                     IF tie THEN RoundFloat(2 * h - 1, 2, side) ELSE h, 2, "")

\* ', '.join(f"{k}: ${v:.2f}" for k, v in items)
JoinMoney(items) == [j \in 1..Len(items) |-> <<items[j][1], FormatF(items[j][2], 2)>>]

\* ', '.join(f"{k}: {v:.1%}" for k, v in items)
JoinPercent(items) == [j \in 1..Len(items) |-> <<items[j][1], FormatPercent(items[j][2])>>]

\* An insertion that also moves an item before the items of equal mean.
RECURSIVE InsertByKey_Unstable(_, _)
InsertByKey_Unstable(sorted, item) ==
    IF Len(sorted) = 0 THEN <<item>>
    ELSE LET last == sorted[Len(sorted)]
         IN  IF ~FracLess(item[2], last[2])
             THEN Append(InsertByKey_Unstable(SubSeq(sorted, 1, Len(sorted) - 1), item), last)
             ELSE Append(sorted, item)

\* sorted(items, key=lambda x: -x[1]): a stable sort, the larger mean first.
\* Python's sort of a short list is an insertion sort that places each item
\* after the items already placed whose key is not greater.
RECURSIVE InsertByKey(_, _)
InsertByKey(sorted, item) ==
    IF Len(sorted) = 0 THEN <<item>>
    ELSE LET last == sorted[Len(sorted)]
         IN  IF FracLess(last[2], item[2])
             THEN Append(InsertByKey(SubSeq(sorted, 1, Len(sorted) - 1), item), last)
             ELSE Append(sorted, item)

RECURSIVE SortedByMeanDesc(_)
SortedByMeanDesc(items) ==
    IF Len(items) = 0 THEN <<>>
    ELSE InsertByKey(SortedByMeanDesc(SubSeq(items, 1, Len(items) - 1)),
                     items[Len(items)])

\* lst[:k]
Take(lst, k) == SubSeq(lst, 1, IF Len(lst) < k THEN Len(lst) ELSE k)

\* Line 64: sorted(stats['category_stats'].items(), key=lambda x: -x[1])[:5]
TopCategories(category_stats) == Take(SortedByMeanDesc(category_stats), 5)

\* df_sample.head(3).to_string(): the first three rows, label and cells, or the
\* notice of an empty frame.
SampleText(df_sample) ==
    [empty |-> Len(df_sample.rows) = 0, lines |-> Take(df_sample.rows, 3)]

\* Whether building the context raises: stats['expert_projects'] is indexed
\* by 'min', 'max' and 'mean' (line 70), outside the try statement.
ContextRaises(stats_) ==
    ~({"min", "max", "mean"} \subseteq stats_.expert_projects.keys)

\* Lines 48-74: the context, when building it does not raise.
Context(stats_, df_sample) ==
    [avg_earnings       |-> FormatF(stats_.avg_earnings, 2),
     crypto             |-> FormatF(stats_.crypto_earnings, 2),
     non_crypto         |-> FormatF(stats_.non_crypto_earnings, 2),
     rating_vs_earnings |-> FormatCorr(stats_.rating_vs_earnings),
     duration_vs_rating |-> FormatCorr(stats_.duration_vs_rating),
     by_region          |-> JoinMoney(stats_.regional_earnings),
     by_experience      |-> JoinMoney(stats_.experience_stats),
     rehire_rates       |-> JoinPercent(stats_.rehire_by_exp),
     top_categories     |-> JoinMoney(TopCategories(stats_.category_stats)),
     success_rates      |-> JoinPercent(stats_.platform_stats),
     expert_min         |-> FormatRepr(stats_.expert_projects.min),
     expert_max         |-> FormatRepr(stats_.expert_projects.max),
     expert_mean        |-> FormatF(stats_.expert_projects.mean, 1),
     sample             |-> SampleText(df_sample)]

\* -------------------------------------------------------------- the state
VARIABLES
    file,      \* freelancer_data.csv as it is on disk
    pc,        \* where main() is: start, check, prompt, answer, print, done; or
               \* how it died: crashed (in generate_answer), aborted (in
               \* load_data or in input)
    df,        \* main's df
    stats,     \* main's stats
    query,     \* main's query: the last line input() returned, stripped
    answer,    \* main's answer
    console,   \* the last thing printed
    lines,     \* how many lines input() has returned
    calls,     \* how many times generate_answer has been called
    printed,   \* how many answers have been printed
    sent       \* the (question, request) pairs submitted to the service so far

vars == <<file, pc, df, stats, query, answer, console, lines, calls, printed, sent>>

\* ------------------------------------------------- the chat service call
SystemContent ==
    "You are a data analyst assistant. Provide concise, accurate answers based on the context."

NoAnswer == [prefix |-> "", text |-> ""]

\* A request that carries the previous answer as conversation history.
Request_WithHistory(query_, context) ==
    [model |-> "gpt-3.5-turbo",
     messages |-> << [role |-> "system", content |-> SystemContent],
                     [role |-> "user",
                      content |-> [context |-> context, question |-> query_]],
                     [role |-> "assistant", content |-> answer] >>,
     temperature |-> "0.3"]

\* The arguments of client.chat.completions.create (lines 77-90).
Request(query_, context) ==
    [model |-> "gpt-3.5-turbo",
     messages |-> << [role |-> "system", content |-> SystemContent],
                     [role |-> "user",
                      content |-> [context |-> context, question |-> query_]] >>,
     temperature |-> "0.3"]

\* response.choices[0].message.content when it is a text.
Content(text) == [text |-> text]

\* What the call can do: return a response whose first choice has a text or
\* None for content, return a response with no choice, raise an Exception, or
\* raise what is no Exception (the user interrupts the wait, or the process is
\* told to exit).
ServiceOutcomes ==
    { [raised |-> FALSE, choices |-> <<Content("Crypto pays more.")>>,
       error |-> "", caught |-> FALSE],
      [raised |-> FALSE, choices |-> <<None>>, error |-> "", caught |-> FALSE],
      [raised |-> FALSE, choices |-> <<>>, error |-> "", caught |-> FALSE],
      [raised |-> TRUE, choices |-> <<>>, error |-> "Connection error.", caught |-> TRUE],
      [raised |-> TRUE, choices |-> <<>>, error |-> "KeyboardInterrupt", caught |-> FALSE],
      [raised |-> TRUE, choices |-> <<>>, error |-> "SystemExit", caught |-> FALSE] }

\* f"Error generating answer: {str(e)}"
ErrorString(e) == [prefix |-> "Error generating answer: ", text |-> e]

\* Line 92: except Exception does not catch a BaseException.
Escapes(outcome) == outcome.raised /\ ~outcome.caught

\* Lines 76-93: what generate_answer returns once the call has ended without
\* an exception escaping: the content of the first choice (a string, or None),
\* or the error string.
Returned(outcome) ==
    IF outcome.raised THEN ErrorString(outcome.error)
    ELSE IF Len(outcome.choices) = 0 THEN ErrorString("list index out of range")
    ELSE IF outcome.choices[1] = None THEN None
    ELSE [prefix |-> "", text |-> outcome.choices[1].text]

\* ------------------------------------------------------- the console loop
\* Lines typed at the prompt, as sequences of characters.  A character is a
\* one-character string, or its Python escape where TLA+ cannot write it.
InputLines ==
    { <<>>, <<" ", " ">>, <<"\\xa0">>,
      <<"e", "x", "i", "t">>, <<" ", "E", "X", "i", "t", " ">>,
      <<"e", "x", "i", "t", "\r">>,
      <<"e", "x", "i", "t", "s">>, <<" ", "T", "o", "p", " ", "5">> }

\* The characters str.strip() removes: those str.isspace() holds of.
Whitespace ==
    {" ", "\t", "\n", "\r", "\f", "\\x0b", "\\x1c", "\\x1d", "\\x1e", "\\x1f",
     "\\x85", "\\xa0", "\\u1680", "\\u2000", "\\u2001", "\\u2002", "\\u2003",
     "\\u2004", "\\u2005", "\\u2006", "\\u2007", "\\u2008", "\\u2009", "\\u200a",
     "\\u2028", "\\u2029", "\\u202f", "\\u205f", "\\u3000"}

RECURSIVE LStrip(_)
LStrip(line) ==
    IF Len(line) > 0 /\ line[1] \in Whitespace THEN LStrip(Tail(line)) ELSE line

RECURSIVE RStrip(_)
RStrip(line) ==
    IF Len(line) > 0 /\ line[Len(line)] \in Whitespace
    THEN RStrip(SubSeq(line, 1, Len(line) - 1)) ELSE line

\* str.strip()
Strip(line) == RStrip(LStrip(line))

UpperCase ==
    <<"A", "B", "C", "D", "E", "F", "G", "H", "I", "J", "K", "L", "M",
      "N", "O", "P", "Q", "R", "S", "T", "U", "V", "W", "X", "Y", "Z">>

LowerCase ==
    <<"a", "b", "c", "d", "e", "f", "g", "h", "i", "j", "k", "l", "m",
      "n", "o", "p", "q", "r", "s", "t", "u", "v", "w", "x", "y", "z">>

\* str.lower() of one character of the lines modelled (ASCII letters fold,
\* every other character of InputLines is left as it is).
LowerChar(ch) ==
    IF \E k \in 1..26 : UpperCase[k] = ch
    THEN LowerCase[CHOOSE k \in 1..26 : UpperCase[k] = ch]
    ELSE ch

\* A comparison that forgets to fold the case.
Lower_Unchanged(line) == line

\* str.lower()
Lower(line) == [j \in 1..Len(line) |-> LowerChar(line[j])]

ExitWord == <<"e", "x", "i", "t">>

InitWith(files) ==
    /\ file \in files
    /\ pc = "start"
    /\ df = None
    /\ stats = None
    /\ query = <<>>
    /\ answer = NoAnswer
    /\ console = <<"">>
    /\ lines = 0
    /\ calls = 0
    /\ printed = 0
    /\ sent = {}

\* Line 98: df, stats = load_data(data_path)
LoadData ==
    /\ pc = "start"
    /\ \E r \in load_data(file) :
          IF r.raised # ""
          THEN /\ console' = <<r.raised>>
               /\ pc' = "aborted"
               /\ UNCHANGED <<df, stats>>
          ELSE /\ df' = r.df
               /\ stats' = r.stats
               /\ console' = <<r.printed>>
               /\ pc' = "check"
    /\ UNCHANGED <<file, query, answer, lines, calls, printed, sent>>

\* Lines 100-102: df is None, so main prints and returns.
ExitOnFailure ==
    /\ pc = "check"
    /\ df = None
    /\ console' = <<"Failed to load data. Exiting.">>
    /\ pc' = "done"
    /\ UNCHANGED <<file, df, stats, query, answer, lines, calls, printed, sent>>

\* Lines 104-114: the banner, with len(df).
Banner ==
    /\ pc = "check"
    /\ df # None
    /\ console' = <<"Loaded data with records", Len(df.rows)>>
    /\ pc' = "prompt"
    /\ UNCHANGED <<file, df, stats, query, answer, lines, calls, printed, sent>>

\* Line 117: input() prints the prompt and returns a line, which is stripped.
Reads(typed) ==
    /\ pc = "prompt"
    /\ lines < MaxTurns
    /\ lines' = lines + 1
    /\ console' = <<"Your question: ">>
    /\ UNCHANGED <<file, df, stats, answer, calls, printed, sent>>

\* What input() raises instead of returning a line: the input has ended, or
\* the user interrupted.
InputErrors == {"EOFError", "KeyboardInterrupt"}

\* Line 117: input() prints the prompt and raises; nothing in main catches
\* it, and the process ends with the traceback.
ReadAborts ==
    \E e \in InputErrors :
        /\ pc = "prompt"
        /\ console' = <<e>>
        /\ pc' = "aborted"
        /\ UNCHANGED <<file, df, stats, query, answer, lines, calls, printed, sent>>

\* Lines 118-119: the stripped line is 'exit' in any letter case.
ReadExit ==
    \E typed \in InputLines :
        /\ Reads(typed)
        /\ Lower(Strip(typed)) = ExitWord
        /\ query' = Strip(typed)
        /\ pc' = "done"

\* Lines 120-121: the stripped line is empty.
ReadBlank ==
    \E typed \in InputLines :
        /\ Reads(typed)
        /\ Lower(Strip(typed)) # ExitWord
        /\ Len(Strip(typed)) = 0
        /\ query' = Strip(typed)
        /\ pc' = "prompt"

\* Any other line goes on to line 123.
ReadQuery ==
    \E typed \in InputLines :
        /\ Reads(typed)
        /\ Lower(Strip(typed)) # ExitWord
        /\ Len(Strip(typed)) # 0
        /\ query' = Strip(typed)
        /\ pc' = "answer"

\* A generate_answer that sorts stats['category_stats'] in place.
AnswerFrame_SortsInPlace ==
    /\ df' = df
    /\ stats' = [stats EXCEPT !.category_stats = SortedByMeanDesc(@)]

\* generate_answer assigns to nothing its caller holds.
AnswerFrame == UNCHANGED <<df, stats>>

\* Line 123: answer = generate_answer(query, stats, df).  Building the context
\* may raise, and nothing in main catches it; otherwise the request is
\* submitted, and either the call's outcome becomes the returned value or what
\* it raised is no Exception and leaves generate_answer and main.
GenerateAnswer ==
    /\ pc = "answer"
    /\ calls' = calls + 1
    /\ AnswerFrame
    /\ IF ContextRaises(stats)
       THEN /\ pc' = "crashed"
            /\ console' = <<"KeyError: 'min'">>
            /\ UNCHANGED <<answer, sent>>
       ELSE /\ sent' = sent \cup {<<query, Request(query, Context(stats, df))>>}
            /\ \E outcome \in ServiceOutcomes :
                  IF Escapes(outcome)
                  THEN /\ pc' = "crashed"
                       /\ console' = <<outcome.error>>
                       /\ UNCHANGED answer
                  ELSE /\ answer' = Returned(outcome)
                       /\ pc' = "print"
                       /\ UNCHANGED console
    /\ UNCHANGED <<file, query, lines, printed>>

\* Line 124: print("\nAnswer:", answer, "\n")
PrintAnswer ==
    /\ pc = "print"
    /\ console' = <<"Answer:", answer>>
    /\ printed' = printed + 1
    /\ pc' = "prompt"
    /\ UNCHANGED <<file, df, stats, query, answer, lines, calls, sent>>

\* main() is run on a file of complete rows, a file lacking a column, or no
\* file; files with damaged cells are given to load_data alone (SpecLoad).
Init == InitWith(Files(MaxRowsMain, {}))

Next ==
    \/ LoadData
    \/ ExitOnFailure
    \/ Banner
    \/ ReadExit
    \/ ReadBlank
    \/ ReadQuery
    \/ ReadAborts
    \/ GenerateAnswer
    \/ PrintAnswer

\* main() on one file.
Spec == Init /\ [][Next]_vars

\* main() on a file of up to MaxCats job categories, or with no file.
InitTop == InitWith(CategoryFiles(MaxCats) \cup {NoFile})

SpecTop == InitTop /\ [][Next]_vars

\* load_data alone, on a file of up to MaxRows rows.
InitLoad == InitWith(Files(MaxRows, AllColumns))

SpecLoad == InitLoad /\ [][LoadData]_vars

\* ===================================================================
\* The claims.
\* ===================================================================
Loaded == pc # "start" /\ df # None

\* Whether a stripped line spells 'exit' in some letter case.
IsExitAnyCase(q) ==
    /\ Len(q) = 4
    /\ q[1] \in {"e", "E"}
    /\ q[2] \in {"x", "X"}
    /\ q[3] \in {"i", "I"}
    /\ q[4] \in {"t", "T"}

\* C1: generate_answer returns a string and never raises to its caller, for
\* every question and every (stats, df) a successful load_data returns.
C1_GenerateAnswerNeverRaises == pc # "crashed"

\* C2: a failure while generating an answer never ends the session: once the
\* data is loaded, the session is over only after the user entered 'exit'.
C2_SessionEndsOnlyOnExit ==
    (Loaded /\ pc \in {"done", "crashed", "aborted"}) => IsExitAnyCase(query)

\* C3 as stated: whenever an exception occurs while the dataset is loaded
\* (the load gives no frame), load_data has returned (None, None) after
\* printing the message, and main ends without reading a line or calling the
\* service; never is exactly one of df and stats None.
C3_AnyExceptionReturnsNone ==
    /\ (df = None) <=> (stats = None)
    /\ (pc # "start" /\ df = None)
         => /\ stats = None
            /\ pc \in {"check", "done"}
            /\ pc = "check" => console = <<"Error loading data">>
            /\ lines = 0
            /\ calls = 0
            /\ sent = {}

\* C3, amended: when an Exception is raised while the dataset is loaded (the
\* file is absent or lacks a named column), load_data returns (None, None)
\* after printing the message and main prints and ends; when what is raised is
\* no Exception (an interrupt or an exit, on any file), it leaves load_data
\* and main with nothing printed but the traceback.  Either way no line is
\* read and no call made, a file that raises never gives a frame, and never
\* is exactly one of df and stats None.
C3_LoadFailureIsFatal ==
    /\ (df = None) <=> (stats = None)
    /\ (pc # "start" /\ LoadRaises(file)) => df = None
    /\ (pc # "start" /\ df = None)
         => /\ stats = None
            /\ pc \in {"check", "done", "aborted"}
            /\ pc = "check" => (LoadRaises(file) /\ console = <<"Error loading data">>)
            /\ pc = "done" => (LoadRaises(file) /\ console = <<"Failed to load data. Exiting.">>)
            /\ pc = "aborted" => console[1] \in LoadErrors
            /\ lines = 0
            /\ calls = 0
            /\ sent = {}

\* A file lacking a column was read, the message printed and main has ended.
C3_Witness ==
    /\ pc = "done"
    /\ file.exists
    /\ "Job_Completed" \notin file.header
    /\ df = None
    /\ console = <<"Failed to load data. Exiting.">>

\* The data rows of the file that cleaning keeps, by position: every cell is
\* present and every cell of a numeric column is a numeral.
Survivors ==
    { i \in 1..Len(file.rows) :
        \A c \in file.header :
            /\ ~IsMissing(file.rows[i][c])
            /\ c \in numeric_cols => IsNumeral(file.rows[i][c]) }

\* The data rows of the file that have no required cell empty.
RowsWithRequiredFields ==
    SelectSeq(file.rows, LAMBDA r : \A c \in RequiredColumns : ~IsMissing(r[c]))

\* C4: every record that survives cleaning has a value in every required
\* column and a number in every numeric column, and a row with a required field
\* empty contributes to no statistic: the bundle is the one the file gives
\* without such rows.
C4_DroppedRowsContributeNothing ==
    Loaded =>
        /\ \A k \in 1..Len(df.rows) :
              LET r == file.rows[df.rows[k].index + 1]
              IN  \A c \in RequiredColumns :
                      /\ ~IsMissing(r[c])
                      /\ ~df.rows[k].cells[c].na
                      /\ c \in numeric_cols =>
                             /\ IsNumeral(r[c])
                             /\ df.rows[k].cells[c].val = NumberOf[r[c]]
        /\ Len(RowsWithRequiredFields) > 0 =>
              \E r \in load_data(Table(file.header, RowsWithRequiredFields)) :
                  stats = r.stats

RECURSIVE SumOver(_, _)
SumOver(S, c) ==
    IF S = {} THEN 0
    ELSE LET i == CHOOSE j \in S : TRUE
         IN  NumberOf[file.rows[i][c]] + SumOver(S \ {i}, c)

\* The grouped statistics: the entry of stats, the key column, the averaged column.
GroupedStatistics ==
    { <<"regional_earnings", "Client_Region", "Earnings_USD">>,
      <<"experience_stats", "Experience_Level", "Earnings_USD">>,
      <<"category_stats", "Job_Category", "Earnings_USD">>,
      <<"platform_stats", "Platform", "Job_Success_Rate">>,
      <<"rehire_by_exp", "Experience_Level", "Rehire_Rate">> }

\* C5: each grouped statistic has exactly the keys of the surviving records,
\* each once, and the value under a key is the arithmetic mean of the column
\* over the surviving records with that key.
C5_GroupedMeans ==
    Loaded =>
        \A g \in GroupedStatistics :
            LET items == stats[g[1]]
                keys  == { file.rows[i][g[2]] : i \in Survivors }
            IN  /\ { items[j][1] : j \in 1..Len(items) } = keys
                /\ Len(items) = Cardinality(keys)
                /\ \A j \in 1..Len(items) :
                      LET G == { i \in Survivors : file.rows[i][g[2]] = items[j][1] }
                          m == items[j][2]
                      IN  /\ m.den > 0
                          /\ m.num * Cardinality(G) = SumOver(G, g[3]) * m.den

\* Two Expert rows earning 300 and 500 survive, and the only Beginner row was
\* dropped: the mean is 400 and Beginner is no key.
C5_Witness ==
    /\ Loaded
    /\ stats.experience_stats = << <<"Expert", [num |-> 400, den |-> 1]>> >>
    /\ Len(df.rows) = 2
    /\ \E i \in 1..Len(file.rows) :
          i \notin Survivors /\ file.rows[i]["Experience_Level"] = "Beginner"

\* Whether a column is constant over the surviving rows (zero variance).
ConstantOverSurvivors(c) ==
    \A i, j \in Survivors : NumberOf[file.rows[i][c]] = NumberOf[file.rows[j][c]]

Correlations ==
    { <<"rating_vs_earnings", "Client_Rating", "Earnings_USD">>,
      <<"duration_vs_rating", "Job_Duration_Days", "Client_Rating">> }

\* Whether a correlation float is at most 1 in size: its exact value is, and
\* at exactly 1 or -1 the residue does not point away from 0.
WithinUnit(r) ==
    /\ 0 <= r.sq.num
    /\ r.sq.num <= r.sq.den
    /\ r.sq.num = r.sq.den => r.off * r.sign <= 0

\* C7: each correlation is NaN or a number in [-1, 1]; a column of zero
\* variance leaves load_data returning the bundle, with NaN for that
\* correlation, which the context prints as "nan".
C7_CorrelationRangeAndNaN ==
    (pc \notin {"start", "aborted"} /\ ~LoadRaises(file)) =>
        /\ stats # None
        /\ \A g \in Correlations :
              LET r == stats[g[1]]
              IN  /\ r.sign \in {-1, 0, 1}
                  /\ IsNaN(r.sq) \/ WithinUnit(r)
                  /\ ~IsNaN(r.sq) => FormatCorr(r).units <= 100 /\ ~FormatCorr(r).nan
                  /\ (ConstantOverSurvivors(g[2]) \/ ConstantOverSurvivors(g[3])) =>
                         /\ IsNaN(r.sq)
                         /\ FormatCorr(r).nan

\* The category list of a submitted request.
TopOf(request) == request.messages[2].content.context.top_categories

\* The place of the i-th category of category_stats in the ranking: one more
\* than the number of categories with a larger mean, or an equal mean and an
\* earlier position.
RankOf(cs, i) ==
    1 + Cardinality({ j \in 1..Len(cs) :
            \/ cs[j][2].num * cs[i][2].den > cs[i][2].num * cs[j][2].den
            \/ (cs[j][2] = cs[i][2] /\ j < i) })

\* C6: the category list in the context is the first min(5, n) categories of
\* category_stats by descending mean, equal means in category_stats order.
C6_TopFiveStableDescending ==
    \A p \in sent :
        LET cs  == stats.category_stats
            top == TopOf(p[2])
        IN  /\ Len(top) = (IF Len(cs) < 5 THEN Len(cs) ELSE 5)
            /\ \A i \in 1..Len(cs) :
                  RankOf(cs, i) <= 5 =>
                      top[RankOf(cs, i)] = <<cs[i][1], FormatF(cs[i][2], 2)>>

\* Six categories, the first two (in category_stats order) at 100 and the
\* other four at 300: the list is the four, then the first; the second is cut.
C6_Witness ==
    /\ sent # {}
    /\ Len(stats.category_stats) = 6
    /\ \A i \in 1..6 :
          stats.category_stats[i][2].num = (IF i <= 2 THEN 100 ELSE 300)

\* Whether a stripped line has no white space at either end.
IsStripped(q) ==
    Len(q) > 0 => (q[1] \notin Whitespace /\ q[Len(q)] \notin Whitespace)

\* C8: at the prompt every answer asked for so far has been printed; a line
\* read there that is 'exit' in any letter case once trimmed ends the session
\* with no call; a blank line causes no call and no output but the prompt and
\* the loop prompts again; any other line causes one call to generate_answer,
\* whose result is printed before the next line is read.
C8_ConsoleLoop ==
    /\ [](pc = "prompt" => printed = calls)
    /\ [][ /\ (pc = "prompt" /\ lines' = lines + 1) =>
               /\ IsStripped(query')
               /\ sent' = sent /\ calls' = calls /\ printed' = printed
               /\ console' = <<"Your question: ">>
               /\ pc' = (IF IsExitAnyCase(query') THEN "done"
                         ELSE IF Len(query') = 0 THEN "prompt"
                         ELSE "answer")
           /\ (pc = "prompt" /\ lines' = lines) =>
               /\ pc' = "aborted"
               /\ sent' = sent /\ calls' = calls /\ printed' = printed
           /\ pc = "answer" =>
               /\ calls' = calls + 1
               /\ lines' = lines /\ printed' = printed
               /\ pc' \in {"print", "crashed"}
               /\ pc' = "print" => Cardinality(sent' \ sent) <= 1
           /\ pc = "print" =>
               /\ printed' = printed + 1
               /\ console' = <<"Answer:", answer>>
               /\ lines' = lines /\ calls' = calls /\ sent' = sent
               /\ pc' = "prompt"
           /\ pc \in {"done", "crashed", "aborted"} => FALSE ]_vars

\* A blank line and then a question have been read and the answer printed.
C8_Witness ==
    /\ pc = "prompt"
    /\ lines = 2
    /\ calls = 1
    /\ printed = 1
    /\ console = <<"Answer:", answer>>

\* C9: once load_data has returned, no step changes stats or df.
C9_BundleNeverMutated ==
    [][pc # "start" => (stats' = stats /\ df' = df)]_vars

\* Two questions answered on a bundle whose category_stats is not in ranking
\* order.
C9_Witness ==
    /\ Loaded
    /\ printed = 2
    /\ Len(stats.category_stats) = 2
    /\ stats.category_stats # SortedByMeanDesc(stats.category_stats)
    /\ Return(df, stats, "") \in load_data(file)

\* C10: the request submitted for a question depends on the question and the
\* loaded data alone: the same question always gives the same request, the one
\* built from the question and what load_data made of the file.
C10_PromptFunctionOfQuestionAndData ==
    /\ \A a, b \in sent : a[1] = b[1] => a[2] = b[2]
    /\ (pc = "print" \/ (pc = "crashed" /\ sent # {})) =>
          LET context == Context(stats, df)
          IN  /\ Return(df, stats, "") \in load_data(file)
              /\ \A a \in sent : a[2] = Request(a[1], context)

\* The same question asked twice and nothing else, the service failing the
\* second time.
C10_Witness ==
    /\ pc = "prompt"
    /\ lines = 2
    /\ printed = 2
    /\ console = <<"Answer:", ErrorString("Connection error.")>>
    /\ Cardinality(sent) = 1

====
